---- MODULE Spec2Model ----
(***************************************************************************)
(* A model of the pnad lazy field-resolution and caching engine:           *)
(* select_by_year (utils.py), Field / IncomeField / FunctionField and      *)
(* sum_na, DataFrameProxy and Transformer (transformer/base.py), Cache     *)
(* (cache.py), over a slice of the PersonTransformer field catalog.        *)
(***************************************************************************)
EXTENDS Integers, Sequences, FiniteSets, TLC

\* ------------------------------------------------------------------ bounds
\* Rows of a year's raw table (one row per surveyed unit).
NRows == 2
\* Longest explicit field list handed to a Transformer.
MaxFields == 2
\* Calls of load() in one behaviour.
MaxCalls == 2
\* Largest number of columns and of rows handed to sum_na on its own.
MaxArgs == 2
MaxLen == 3

\* ------------------------------------------------------------------ values
\* A cell of a column: a number, the float nan, or Python's None.
Num(v) == [k |-> "num", v |-> v]
NaN == [k |-> "nan", v |-> 0]
NoneCell == [k |-> "none", v |-> 0]
\* The number 999999999999, which is beyond the integers of the checker.
Nines12 == [k |-> "nines12", v |-> 0]

\* np.isnan of one cell (defined for floats only).
isnan(c) == c.k = "nan"

\* A Python value handed around by descriptors: None, a numpy array or a
\* pandas Series (a column with the row index attached).
PyNone == [t |-> "None", a |-> <<>>]
ndarray(a) == [t |-> "ndarray", a |-> a]
Series(a) == [t |-> "Series", a |-> a]

Fill(n, c) == [i \in 1..n |-> c]

\* The element of a singleton.  {e(r) : r \in {x}} binds r to the value of x,
\* computed once, where a LET definition is computed again at each use.
Only(S) == CHOOSE x \in S : TRUE

\* ------------------------------------------------------------ select_by_year
\* `...` and None as a bound of a year range.
Ellipsis == 0
NoBound == -1
NegInf == -1000000
PosInf == 1000000

\* The outcomes a per-year specification maps to.
Col(c) == [t |-> "col", c |-> c, n |-> 0]
Unavailable == [t |-> "none", c |-> "", n |-> 0]
Literal(n) == [t |-> "lit", c |-> "", n |-> n]

\* One item of a specification dict: key is <<k>> (a single year) or <<a, b>>.
Item(key, value) == [key |-> key, value |-> value]

\* utils.py 126-132: a, b of one item, open bounds made infinite.
Normalize(item) ==
    LET a0 == item.key[1]
        b0 == IF Len(item.key) = 2 THEN item.key[2] ELSE item.key[1]
    IN  [a |-> IF a0 \in {Ellipsis, NoBound} THEN NegInf ELSE a0,
         b |-> IF b0 \in {Ellipsis, NoBound} THEN PosInf ELSE b0,
         value |-> item.value]

\* The raw variable names of the model in the order of Python's str `<`.
NameOrder ==
    <<"V2308", "V2318", "V2338", "V2358", "V2426", "V2446", "V2996", "V2998",
      "V4732", "V537", "V75", "V76", "V9532", "V9971">>
StrLess(c1, c2) ==
    (CHOOSE i \in 1..Len(NameOrder) : NameOrder[i] = c1)
        < (CHOOSE i \in 1..Len(NameOrder) : NameOrder[i] = c2)

\* Python's `<` between two outcomes: defined for two strings and for two
\* numbers, a TypeError for None and for mixed types.
Orderable(v, w) == v.t = w.t /\ v.t # "none"
ValueLess(v, w) == IF v.t = "col" THEN StrLess(v.c, w.c) ELSE v.n < w.n

\* Tuple order of (a, b, value): the first differing element decides.
TripleLess(x, y) ==
    \/ x.a < y.a
    \/ x.a = y.a /\ x.b < y.b
    \/ x.a = y.a /\ x.b = y.b /\ x.value # y.value /\ ValueLess(x.value, y.value)

\* spec.sort() has to compare two triples of equal bounds by their outcomes.
SortRaises(spec) ==
    \E i, j \in 1..Len(spec) :
        /\ spec[i].a = spec[j].a /\ spec[i].b = spec[j].b
        /\ spec[i].value # spec[j].value
        /\ ~Orderable(spec[i].value, spec[j].value)

RECURSIVE InsertSorted(_, _)
InsertSorted(x, sorted) ==
    IF sorted = <<>> THEN <<x>>
    ELSE IF TripleLess(x, Head(sorted)) THEN <<x>> \o sorted
    ELSE <<Head(sorted)>> \o InsertSorted(x, Tail(sorted))

RECURSIVE SortSpec(_)
SortSpec(items) ==
    IF items = <<>> THEN <<>>
    ELSE InsertSorted(items[Len(items)], SortSpec(SubSeq(items, 1, Len(items) - 1)))

\* Mutant of FirstMatch: a year outside every interval is 'unavailable'.
RECURSIVE FirstMatch_default(_, _)
FirstMatch_default(year, spec) ==
    IF spec = <<>> THEN [err |-> "", value |-> Unavailable]
    ELSE IF Head(spec).a <= year /\ year <= Head(spec).b
         THEN [err |-> "", value |-> Head(spec).value]
    ELSE FirstMatch_default(year, Tail(spec))

RECURSIVE FirstMatch(_, _)
FirstMatch(year, spec) ==
    IF spec = <<>> THEN [err |-> "ValueError", value |-> Unavailable]
    ELSE IF Head(spec).a <= year /\ year <= Head(spec).b
         THEN [err |-> "", value |-> Head(spec).value]
    ELSE FirstMatch(year, Tail(spec))

\* Mutant of select_by_year: the intervals are tried in the order written.
select_by_year_unsorted(year, D) ==
    FirstMatch(year, [i \in 1..Len(D) |-> Normalize(D[i])])

select_by_year(year, D) ==
    LET spec == [i \in 1..Len(D) |-> Normalize(D[i])]
    IN  IF SortRaises(spec) THEN [err |-> "TypeError", value |-> Unavailable]
        ELSE FirstMatch(year, SortSpec(spec))

\* ------------------------------------------------------------------ sum_na
\* numpy's in-place `out op= x`: x must have out's length, or length 1.
Broadcasts(L0, L) == L = L0 \/ L = 1
At(x, i) == IF Len(x) = 1 THEN x[1] ELSE x[i]

RECURSIVE AllNull(_, _)
AllNull(args, i) ==
    IF args = <<>> THEN TRUE
    ELSE isnan(At(Head(args), i)) /\ AllNull(Tail(args), i)

RECURSIVE SumNonNull(_, _)
SumNonNull(args, i) ==
    IF args = <<>> THEN 0
    ELSE (IF isnan(At(Head(args), i)) THEN 0 ELSE At(Head(args), i).v)
         + SumNonNull(Tail(args), i)

\* Mutant of sum_na: plain addition, a null in any input makes the row null.
sum_na_propagate(args) ==
    LET xs == [j \in 1..Len(args) |-> args[j].a]
    IN  [err |-> "",
         ret |-> ndarray([i \in 1..Len(xs[1]) |->
                    IF \E j \in 1..Len(xs) : isnan(At(xs[j], i)) THEN NaN
                    ELSE Num(SumNonNull(xs, i))])]

\* Mutant of sum_na: the rows where every input is null are left at 0.
sum_na_unmasked(args) ==
    LET xs == [j \in 1..Len(args) |-> args[j].a]
    IN  [err |-> "", ret |-> ndarray([i \in 1..Len(xs[1]) |-> Num(SumNonNull(xs, i))])]

\* Mutant of sum_na: the null mask is taken from the first input alone.
sum_na_first_mask(args) ==
    LET xs == [j \in 1..Len(args) |-> args[j].a]
    IN  [err |-> "",
         ret |-> ndarray([i \in 1..Len(xs[1]) |->
                    IF isnan(At(xs[1], i)) THEN NaN ELSE Num(SumNonNull(xs, i))])]

\* base.py 195-214. args: a non-empty sequence of Python values.
sum_na(args) ==
    IF \E j \in 1..Len(args) : args[j].t = "None"
                               \/ \E i \in 1..Len(args[j].a) : args[j].a[i].k = "none"
    THEN [err |-> "TypeError", ret |-> PyNone]
    ELSE LET xs == [j \in 1..Len(args) |-> args[j].a]
             L0 == Len(xs[1])
         IN  IF \E j \in 2..Len(xs) : ~Broadcasts(L0, Len(xs[j]))
             THEN [err |-> "ValueError", ret |-> PyNone]
             ELSE [err |-> "",
                   ret |-> ndarray([i \in 1..L0 |->
                              IF AllNull(xs, i) THEN NaN
                              ELSE Num(SumNonNull(xs, i))])]

\* The input arrays after sum_na(*args): np.asarray hands back the arrays
\* themselves, np.isnan and np.where build new arrays, and every write
\* (`isnull &=`, `res +=`, `res[isnull] =`) goes to one of these new arrays.
sum_na_inputs(args) == [j \in 1..Len(args) |-> args[j].a]

\* --------------------------------------------------------------- DataFrame
\* A pandas DataFrame: ordered column names, the columns, the index length.
EmptyFrame == [cols |-> <<>>, val |-> [c \in {} |-> <<>>], n |-> 0]

InSeq(x, seq) == \E i \in 1..Len(seq) : seq[i] = x
SeqSet(seq) == {seq[i] : i \in 1..Len(seq)}

\* `c in df.columns`
HasColumn(df, c) == InSeq(c, df.cols)

PutColumn(df, c, col) ==
    [cols |-> IF HasColumn(df, c) THEN df.cols ELSE Append(df.cols, c),
     val |-> [x \in (DOMAIN df.val) \cup {c} |-> IF x = c THEN col ELSE df.val[x]],
     n |-> df.n]

\* DataFrame._ensure_valid_index: a frame with an empty index takes the
\* index of the first non-empty list-like stored; its columns are refilled.
Reindexed(df, n) ==
    [cols |-> df.cols, val |-> [x \in DOMAIN df.val |-> Fill(n, NaN)], n |-> n]

\* A Series aligned to an index of n rows.
Aligned(a, n) == [i \in 1..n |-> IF i <= Len(a) THEN a[i] ELSE NaN]

\* df[c] = value, for a scalar (None), an array or a Series.
SetItem(df, c, value) ==
    IF value.t = "None"
    THEN [err |-> "", df |-> PutColumn(df, c, Fill(df.n, NoneCell))]
    ELSE IF df.n = 0 /\ Len(value.a) > 0
    THEN [err |-> "", df |-> PutColumn(Reindexed(df, Len(value.a)), c, value.a)]
    ELSE IF Len(value.a) = df.n
    THEN [err |-> "", df |-> PutColumn(df, c, value.a)]
    ELSE IF value.t = "Series"
    THEN [err |-> "", df |-> PutColumn(df, c, Aligned(value.a, df.n))]
    ELSE [err |-> "ValueError", df |-> df]

\* df[c] = scalar number
SetScalar(df, c, v) == PutColumn(df, c, Fill(df.n, Num(v)))

RECURSIVE Keep(_, _)
Keep(names, df) ==
    IF names = <<>> THEN <<>>
    ELSE IF HasColumn(df, Head(names)) THEN <<Head(names)>> \o Keep(Tail(names), df)
    ELSE Keep(Tail(names), df)

\* Mutant of Select: the requested columns in the frame's own order.
Select_frame_order(df, names) ==
    LET kept == Keep(df.cols, [cols |-> names])
    IN  [cols |-> kept, val |-> [x \in SeqSet(kept) |-> df.val[x]], n |-> df.n]

\* Mutant of Select: the frame is returned unsliced.
Select_whole(df, names) == df

\* df[[c for c in names if c in df.columns]]
Select(df, names) ==
    LET kept == Keep(names, df)
    IN  [cols |-> kept, val |-> [x \in SeqSet(kept) |-> df.val[x]], n |-> df.n]

\* ------------------------------------------------------------------- Cache
\* The cache directory: (year, col) -> the saved array, for the files there.
EmptyCache == [k \in {} |-> <<>>]
HasEntry(c, year, col) == <<year, col>> \in DOMAIN c

\* Cache.save of one column.
SaveColumn(c, year, col, a) ==
    [k \in (DOMAIN c) \cup {<<year, col>>} |-> IF k = <<year, col>> THEN a ELSE c[k]]

\* Cache.load(year, [col])[col]
LoadColumn(c, year, col) ==
    IF HasEntry(c, year, col) THEN [err |-> "", ret |-> Series(c[<<year, col>>])]
    ELSE [err |-> "CacheError", ret |-> PyNone]

\* Cache.load(year, cols): the first col without a file raises CacheError(col),
\* and pd.DataFrame(dict, columns=cols) needs arrays of one length.
RECURSIVE FirstAbsent(_, _, _)
FirstAbsent(c, year, cols) ==
    IF cols = <<>> THEN <<>>
    ELSE IF ~HasEntry(c, year, Head(cols)) THEN <<Head(cols)>>
    ELSE FirstAbsent(c, year, Tail(cols))

Cache_load(c, year, cols) ==
    LET absent == FirstAbsent(c, year, cols)
    IN  IF absent # <<>> THEN [err |-> "CacheError", ret |-> [t |-> "args", a |-> absent]]
        ELSE IF \E i, j \in 1..Len(cols) :
                    Len(c[<<year, cols[i]>>]) # Len(c[<<year, cols[j]>>])
        THEN [err |-> "ValueError", ret |-> PyNone]
        ELSE [err |-> "",
              ret |-> [t |-> "DataFrame",
                       a |-> [i \in 1..Len(cols) |->
                                 [name |-> cols[i], a |-> c[<<year, cols[i]>>]]]]]

\* ----------------------------------------------------- the field catalog
\* The descriptors of base.py: a raw-mapping Field (missing sentinel -1 by
\* default; NoneCell is missing=None), an IncomeField, and a FunctionField
\* whose function reads the named attributes of the proxy in order and adds
\* them with sum_na.
Field(spec) == [kind |-> "Field", spec |-> spec, missing |-> Num(-1), deps |-> <<>>]
IncomeField(spec) == [kind |-> "IncomeField", spec |-> spec, missing |-> Num(-1), deps |-> <<>>]
FunctionField(deps) == [kind |-> "FunctionField", spec |-> <<>>, missing |-> Num(-1), deps |-> deps]

income_work_main_money_fixed ==
    IncomeField(<<Item(<<1992, Ellipsis>>, Col("V9532")), Item(<<1981, 1990>>, Col("V537")),
                  Item(<<1979>>, Col("V2318")), Item(<<1978>>, Col("V2426")),
                  Item(<<1977>>, Col("V75")), Item(<<1976>>, Col("V2308"))>>)

income_work_main_money_variable ==
    IncomeField(<<Item(<<1981, Ellipsis>>, Unavailable),
                  Item(<<1979>>, Col("V2338")), Item(<<1978>>, Col("V2446")),
                  Item(<<1977>>, Col("V76")), Item(<<1976>>, Col("V2358"))>>)

income_work_main_money ==
    FunctionField(<<"income_work_main_money_variable", "income_work_main_money_fixed">>)

occupation_year ==
    Field(<<Item(<<1992, Ellipsis>>, Col("V9971")), Item(<<Ellipsis, 1990>>, Unavailable)>>)

weight_family ==
    Field(<<Item(<<1992, Ellipsis>>, Col("V4732")), Item(<<1981, 1990>>, Col("V9971")),
            Item(<<1979>>, Col("V2998")), Item(<<1978>>, Col("V2996"))>>)

\* The declared fields of the transformer class.
Declared ==
    {"income_work_main_money_fixed", "income_work_main_money_variable",
     "income_work_main_money", "occupation_year", "weight_family"}

Catalog ==
    [f \in Declared |->
        CASE f = "income_work_main_money_fixed" -> income_work_main_money_fixed
          [] f = "income_work_main_money_variable" -> income_work_main_money_variable
          [] f = "income_work_main_money" -> income_work_main_money
          [] f = "occupation_year" -> occupation_year
          [] f = "weight_family" -> weight_family]

\* hasattr(transformer, item), for the names the proxy is asked for.
hasattr(item) == item \in Declared

\* Transformer._all_fields: dir(self) without the private names, which is
\* sorted by name and holds the instance attribute `year`.
all_fields ==
    <<"income_work_main_money", "income_work_main_money_fixed",
      "income_work_main_money_variable", "occupation_year", "weight_family", "year">>

\* The survey years of the model.
Years == {1977, 1995}

\* -------------------------------------------------------------- raw source
\* load_raw(year): the variables a raw table may hold, and their values.  A
\* raw table may hold a variable with the name of a declared field.
RawIds == <<"V75", "V76", "V9971", "V9532", "V4732", "occupation_year">>
AllRaw == SeqSet(RawIds)
RawVariants == {AllRaw, AllRaw \ {"V76", "V9971", "occupation_year"}}

ColumnCode(c) == CHOOSE k \in 1..Len(RawIds) : RawIds[k] = c

RawValue(c, i) ==
    LET k == ColumnCode(c)
    IN  CASE (k + i) % 4 = 0 -> -1
          [] (k + i) % 4 = 1 -> 999999
          [] OTHER -> 10 * k + i

RawColumn(c) == [i \in 1..NRows |-> Num(RawValue(c, i))]

\* ------------------------------------------------------------ one session
\* The state of one DataFrameProxy: the transformer's year, the raw table
\* the loader would return, the wrapped frame, whether the raw table is
\* held, and what the session did (loader calls, descriptor calls per field
\* and what each returned, names served from the frame, names looked up in
\* the raw table, and of these the names the raw table lacked, each with the
\* lookup failure of the frame that led to it).  err is the exception being
\* raised, ret the value being returned.
Unset == [t |-> "unset", a |-> <<>>]

NewSession(year, src, df) ==
    [year |-> year, src |-> src, df |-> df, raw |-> FALSE, loads |-> 0,
     evals |-> [f \in Declared |-> 0], rets |-> [f \in Declared |-> Unset],
     hits |-> {}, fell |-> <<>>, lost |-> <<>>,
     err |-> "", ret |-> PyNone]

\* if self.missing is not None: np.where(col == missing, nan, col)
where_missing(a, missing) ==
    IF missing = NoneCell THEN a
    ELSE [i \in 1..Len(a) |-> IF a[i] = missing THEN NaN ELSE a[i]]

\* IncomeField.remove_missing, over the list `missing` of base.py 161.
IncomeMissing ==
    {Num(-1), Num(999999), Num(9999999), Num(99999999), Num(999999999), Nines12}

\* Mutant of remove_missing: the longest sentinel is not removed.
remove_missing_short(a) ==
    [i \in 1..Len(a) |-> IF a[i] \in IncomeMissing \ {Nines12} THEN NaN ELSE a[i]]

remove_missing(a) ==
    [i \in 1..Len(a) |-> IF a[i] \in IncomeMissing THEN NaN ELSE a[i]]

RECURSIVE proxy_get(_, _, _)
RECURSIVE fallback(_, _, _)
RECURSIVE field_method(_, _)
RECURSIVE Field_transform(_, _)
RECURSIVE IncomeField_transform(_, _)
RECURSIVE FunctionField_transform(_, _)
RECURSIVE ReadAll(_, _, _)

\* Mutant of proxy_get: every access goes to the fallback.
proxy_get_always(s, item, exc) == fallback(s, item, exc)

\* DataFrameProxy.__getattr__ and __getitem__: the frame first, and on its
\* lookup failure exc (AttributeError or KeyError) the fallback.
proxy_get(s, item, exc) ==
    IF HasColumn(s.df, item)
    THEN [s EXCEPT !.ret = Series(s.df.val[item]), !.hits = @ \cup {item}]
    ELSE fallback(s, item, exc)

\* Mutant of fallback: the loader is called on every raw lookup.
fallback_reload(s, item, exc) ==
    IF hasattr(item)
    THEN Only({IF r.err # "" THEN r
               ELSE LET w == SetItem(r.df, item, r.ret)
                    IN  IF w.err # "" THEN [r EXCEPT !.err = w.err, !.rets[item] = r.ret]
                        ELSE [r EXCEPT !.df = w.df, !.rets[item] = r.ret]
               : r \in {field_method(s, item)}})
    ELSE LET s1 == [s EXCEPT !.raw = TRUE, !.loads = @ + 1]
             s2 == [s1 EXCEPT !.fell = Append(@, item)]
         IN  IF item \notin s2.src
             THEN [s2 EXCEPT !.err = exc, !.lost = Append(@, [name |-> item, exc |-> exc])]
             ELSE LET col == Series(RawColumn(item))
                      w == SetItem(s2.df, item, col)
                  IN  IF w.err # "" THEN [s2 EXCEPT !.err = w.err]
                      ELSE [s2 EXCEPT !.df = w.df, !.ret = col]

\* Mutant of fallback: a name the raw table holds is read from it, with or
\* without a descriptor.
fallback_raw_first(s, item, exc) ==
    IF hasattr(item) /\ item \notin s.src
    THEN Only({IF r.err # "" THEN r
               ELSE LET w == SetItem(r.df, item, r.ret)
                    IN  IF w.err # "" THEN [r EXCEPT !.err = w.err, !.rets[item] = r.ret]
                        ELSE [r EXCEPT !.df = w.df, !.rets[item] = r.ret]
               : r \in {field_method(s, item)}})
    ELSE LET s1 == IF s.raw THEN s ELSE [s EXCEPT !.raw = TRUE, !.loads = @ + 1]
             s2 == [s1 EXCEPT !.fell = Append(@, item)]
         IN  IF item \notin s2.src
             THEN [s2 EXCEPT !.err = exc, !.lost = Append(@, [name |-> item, exc |-> exc])]
             ELSE LET col == Series(RawColumn(item))
                      w == SetItem(s2.df, item, col)
                  IN  IF w.err # "" THEN [s2 EXCEPT !.err = w.err]
                      ELSE [s2 EXCEPT !.df = w.df, !.ret = col]

\* Mutant of fallback: the raw table's own KeyError is what is raised.
fallback_keyerror(s, item, exc) ==
    IF hasattr(item)
    THEN Only({IF r.err # "" THEN r
               ELSE LET w == SetItem(r.df, item, r.ret)
                    IN  IF w.err # "" THEN [r EXCEPT !.err = w.err, !.rets[item] = r.ret]
                        ELSE [r EXCEPT !.df = w.df, !.rets[item] = r.ret]
               : r \in {field_method(s, item)}})
    ELSE LET s1 == IF s.raw THEN s ELSE [s EXCEPT !.raw = TRUE, !.loads = @ + 1]
             s2 == [s1 EXCEPT !.fell = Append(@, item)]
         IN  IF item \notin s2.src
             THEN [s2 EXCEPT !.err = "KeyError", !.lost = Append(@, [name |-> item, exc |-> exc])]
             ELSE LET col == Series(RawColumn(item))
                      w == SetItem(s2.df, item, col)
                  IN  IF w.err # "" THEN [s2 EXCEPT !.err = w.err]
                      ELSE [s2 EXCEPT !.df = w.df, !.ret = col]

\* DataFrameProxy._fallback
fallback(s, item, exc) ==
    IF hasattr(item)
    THEN Only({IF r.err # "" THEN r
               ELSE LET w == SetItem(r.df, item, r.ret)
                    IN  IF w.err # "" THEN [r EXCEPT !.err = w.err, !.rets[item] = r.ret]
                        ELSE [r EXCEPT !.df = w.df, !.rets[item] = r.ret]
               : r \in {field_method(s, item)}})
    ELSE LET s1 == IF s.raw THEN s ELSE [s EXCEPT !.raw = TRUE, !.loads = @ + 1]
             s2 == [s1 EXCEPT !.fell = Append(@, item)]
         IN  IF item \notin s2.src
             THEN [s2 EXCEPT !.err = exc, !.lost = Append(@, [name |-> item, exc |-> exc])]
             ELSE LET col == Series(RawColumn(item))
                      w == SetItem(s2.df, item, col)
                  IN  IF w.err # "" THEN [s2 EXCEPT !.err = w.err]
                      ELSE [s2 EXCEPT !.df = w.df, !.ret = col]

\* Field.__get__: the bound method of a declared field, called with the proxy.
field_method(s, item) ==
    LET d == Catalog[item]
        s1 == [s EXCEPT !.evals[item] = @ + 1]
    IN  CASE d.kind = "Field" -> Field_transform(s1, d)
          [] d.kind = "IncomeField" -> IncomeField_transform(s1, d)
          [] d.kind = "FunctionField" -> FunctionField_transform(s1, d)

\* Mutant of Field.transform: the KeyError of a missing raw variable is not
\* caught.
Field_transform_strict(s, d) ==
    LET sel == select_by_year(s.year, d.spec)
    IN  IF sel.err # "" THEN [s EXCEPT !.err = sel.err]
        ELSE IF sel.value.t = "none" THEN [s EXCEPT !.ret = PyNone]
        ELSE IF sel.value.t = "lit"
        THEN [s EXCEPT !.ret = ndarray(Fill(s.df.n, Num(sel.value.n)))]
        ELSE Only({IF r.err # "" THEN r
                   ELSE [r EXCEPT !.ret = ndarray(where_missing(r.ret.a, d.missing))]
                   : r \in {proxy_get(s, sel.value.c, "KeyError")}})

\* Field.transform
Field_transform(s, d) ==
    LET sel == select_by_year(s.year, d.spec)
    IN  IF sel.err # "" THEN [s EXCEPT !.err = sel.err]
        ELSE IF sel.value.t = "none" THEN [s EXCEPT !.ret = PyNone]
        ELSE IF sel.value.t = "lit"
        THEN [s EXCEPT !.ret = ndarray(Fill(s.df.n, Num(sel.value.n)))]
        ELSE Only({IF r.err = "KeyError" THEN [r EXCEPT !.err = "", !.ret = PyNone]
                   ELSE IF r.err # "" THEN r
                   ELSE [r EXCEPT !.ret = ndarray(where_missing(r.ret.a, d.missing))]
                   : r \in {proxy_get(s, sel.value.c, "KeyError")}})

\* IncomeField.transform
IncomeField_transform(s, d) ==
    Only({IF r.err # "" THEN r
          ELSE IF r.ret.t = "None" THEN [r EXCEPT !.ret = ndarray(Fill(r.df.n, NaN))]
          ELSE [r EXCEPT !.ret = ndarray(remove_missing(r.ret.a))]
          : r \in {Field_transform(s, d)}})

\* The attribute reads df.<name> of a function, left to right.
ReadAll(s, names, args) ==
    IF names = <<>> THEN [s |-> s, args |-> args]
    ELSE Only({IF r.err # "" THEN [s |-> r, args |-> args]
               ELSE ReadAll(r, Tail(names), Append(args, r.ret))
               : r \in {proxy_get(s, Head(names), "AttributeError")}})

\* FunctionField.transform, for the functions `return sum_na(df.a, df.b)`.
FunctionField_transform(s, d) ==
    Only({IF read.s.err # "" THEN read.s
          ELSE LET sum == sum_na(read.args)
               IN  [read.s EXCEPT !.err = sum.err, !.ret = sum.ret]
          : read \in {ReadAll(s, d.deps, <<>>)}})

\* ------------------------------------------------------------- Transformer
\* Transformer.__init__: tuple(fields or self._all_fields())
requested(fields) == IF fields = <<>> THEN all_fields ELSE fields

\* Transformer._load_cached: the cached columns of the requested fields, in
\* the order requested; a CacheError leaves the field out.
RECURSIVE load_cached(_, _, _, _)
\* Mutant of load_cached: the first miss ends the loading.
load_cached_abort(c, year, names, data) ==
    IF names = <<>> THEN data
    ELSE LET attr == Head(names)
             got == LoadColumn(c, year, attr)
         IN  IF attr = "year" THEN load_cached(c, year, Tail(names), data)
             ELSE IF got.err # "" THEN data
             ELSE load_cached(c, year, Tail(names), SetItem(data, attr, got.ret).df)

load_cached(c, year, names, data) ==
    IF names = <<>> THEN data
    ELSE LET attr == Head(names)
             got == LoadColumn(c, year, attr)
         IN  IF attr = "year" \/ got.err # "" THEN load_cached(c, year, Tail(names), data)
             ELSE load_cached(c, year, Tail(names), SetItem(data, attr, got.ret).df)

\* The loop of Transformer.__call__ over the requested fields; extra is the
\* dict of the columns it computed, in insertion order.
RECURSIVE ResolveFields(_, _, _)
\* Mutant of ResolveFields: the fields already in the frame are resolved again.
ResolveFields_recompute(s, names, extra) ==
    IF names = <<>> THEN [s |-> s, extra |-> extra]
    ELSE LET attr == Head(names)
         IN  IF attr = "year"
             THEN ResolveFields(s, Tail(names), extra)
             ELSE Only({IF r.err # "" THEN [s |-> r, extra |-> extra]
                        ELSE IF r.ret.t = "None" THEN ResolveFields(r, Tail(names), extra)
                        ELSE LET w == SetItem(r.df, attr, r.ret)
                             IN  IF w.err # "" THEN [s |-> [r EXCEPT !.err = w.err], extra |-> extra]
                                 ELSE ResolveFields([r EXCEPT !.df = w.df], Tail(names),
                                                    Append(extra, [name |-> attr, a |-> r.ret.a]))
                        : r \in {proxy_get(s, attr, "AttributeError")}})

ResolveFields(s, names, extra) ==
    IF names = <<>> THEN [s |-> s, extra |-> extra]
    ELSE LET attr == Head(names)
         IN  IF attr = "year" \/ HasColumn(s.df, attr)
             THEN ResolveFields(s, Tail(names), extra)
             ELSE Only({IF r.err # "" THEN [s |-> r, extra |-> extra]
                        ELSE IF r.ret.t = "None" THEN ResolveFields(r, Tail(names), extra)
                        ELSE LET w == SetItem(r.df, attr, r.ret)
                             IN  IF w.err # "" THEN [s |-> [r EXCEPT !.err = w.err], extra |-> extra]
                                 ELSE ResolveFields([r EXCEPT !.df = w.df], Tail(names),
                                                    Append(extra, [name |-> attr, a |-> r.ret.a]))
                        : r \in {proxy_get(s, attr, "AttributeError")}})

\* pd.DataFrame(extra) needs arrays of one length.
SameLength(extra) == \A i, j \in 1..Len(extra) : Len(extra[i].a) = Len(extra[j].a)

\* Cache.save(year, frame)
RECURSIVE save(_, _, _)
\* Mutant of save: the year's files are replaced by the frame's columns.
save_replace(c, year, extra) ==
    IF extra = <<>> THEN c
    ELSE LET names == {extra[i].name : i \in 1..Len(extra)}
             kept == {k \in DOMAIN c : k[1] # year}
         IN  [k \in kept \cup {<<year, x>> : x \in names} |->
                 IF k \in kept THEN c[k]
                 ELSE extra[CHOOSE i \in 1..Len(extra) : extra[i].name = k[2]].a]

save(c, year, extra) ==
    IF extra = <<>> THEN c
    ELSE save(SaveColumn(c, year, Head(extra).name, Head(extra).a), year, Tail(extra))

Names(extra) == [i \in 1..Len(extra) |-> extra[i].name]

\* What one call of a transformer shows: its arguments, the exception it
\* raised ("" when it returned), the frame returned, the cache files it
\* wrote, the fields it found cached, and the session's record.
Outcome(year, fields, err, table, saved, cached, fast, s) ==
    [year |-> year, fields |-> fields, err |-> err, table |-> table,
     saved |-> saved, cached |-> cached, fast |-> fast, loads |-> s.loads,
     evals |-> s.evals, rets |-> s.rets, hits |-> s.hits, fell |-> s.fell,
     lost |-> s.lost, frame |-> s.df.cols]

\* Mutant of Transformer_call: each column is saved as soon as it is computed.
Transformer_call_eager(c, src, year, fields) ==
    LET F == requested(fields)
    IN  Only({
          IF Len(df.cols) = Len(F)
          THEN [cache |-> c,
                out |-> Outcome(year, fields, "", df, <<>>, SeqSet(df.cols), TRUE,
                                NewSession(year, src, df))]
          ELSE Only({
                 LET cached == SeqSet(df.cols)
                     s1 == res.s
                     s2 == IF InSeq("year", F)
                           THEN [s1 EXCEPT !.df = SetScalar(@, "year", year)] ELSE s1
                 IN  IF s1.err # ""
                     THEN [cache |-> save(c, year, res.extra),
                           out |-> Outcome(year, fields, s1.err, EmptyFrame, <<>>, cached, FALSE, s1)]
                     ELSE IF ~SameLength(res.extra)
                     THEN [cache |-> c,
                           out |-> Outcome(year, fields, "ValueError", EmptyFrame, <<>>, cached,
                                           FALSE, s2)]
                     ELSE [cache |-> save(c, year, res.extra),
                           out |-> Outcome(year, fields, "", Select(s2.df, F),
                                           Names(res.extra), cached, FALSE, s2)]
                 : res \in {ResolveFields(NewSession(year, src, df), F, <<>>)}})
          : df \in {load_cached(c, year, F, EmptyFrame)}})

\* Mutant of Transformer_call: the whole working table is saved.
Transformer_call_whole(c, src, year, fields) ==
    LET F == requested(fields)
    IN  Only({
          IF Len(df.cols) = Len(F)
          THEN [cache |-> c,
                out |-> Outcome(year, fields, "", df, <<>>, SeqSet(df.cols), TRUE,
                                NewSession(year, src, df))]
          ELSE Only({
                 LET cached == SeqSet(df.cols)
                     s1 == res.s
                     s2 == IF InSeq("year", F)
                           THEN [s1 EXCEPT !.df = SetScalar(@, "year", year)] ELSE s1
                 IN  IF s1.err # ""
                     THEN [cache |-> c,
                           out |-> Outcome(year, fields, s1.err, EmptyFrame, <<>>, cached, FALSE, s1)]
                     ELSE IF ~SameLength(res.extra)
                     THEN [cache |-> c,
                           out |-> Outcome(year, fields, "ValueError", EmptyFrame, <<>>, cached,
                                           FALSE, s2)]
                     ELSE [cache |-> save(c, year, [i \in 1..Len(s2.df.cols) |->
                                                  [name |-> s2.df.cols[i],
                                                   a |-> s2.df.val[s2.df.cols[i]]]]),
                           out |-> Outcome(year, fields, "", Select(s2.df, F),
                                           Names(res.extra), cached, FALSE, s2)]
                 : res \in {ResolveFields(NewSession(year, src, df), F, <<>>)}})
          : df \in {load_cached(c, year, F, EmptyFrame)}})

\* Transformer(year, fields, loader=...)(): the cache afterwards and the outcome.
\* fields = <<>> is `fields=None`.
Transformer_call(c, src, year, fields) ==
    LET F == requested(fields)
    IN  Only({
          IF Len(df.cols) = Len(F)
          THEN [cache |-> c,
                out |-> Outcome(year, fields, "", df, <<>>, SeqSet(df.cols), TRUE,
                                NewSession(year, src, df))]
          ELSE Only({
                 LET cached == SeqSet(df.cols)
                     s1 == res.s
                     s2 == IF InSeq("year", F)
                           THEN [s1 EXCEPT !.df = SetScalar(@, "year", year)] ELSE s1
                 IN  IF s1.err # ""
                     THEN [cache |-> c,
                           out |-> Outcome(year, fields, s1.err, EmptyFrame, <<>>, cached, FALSE, s1)]
                     ELSE IF ~SameLength(res.extra)
                     THEN [cache |-> c,
                           out |-> Outcome(year, fields, "ValueError", EmptyFrame, <<>>, cached,
                                           FALSE, s2)]
                     ELSE [cache |-> save(c, year, res.extra),
                           out |-> Outcome(year, fields, "", Select(s2.df, F),
                                           Names(res.extra), cached, FALSE, s2)]
                 : res \in {ResolveFields(NewSession(year, src, df), F, <<>>)}})
          : df \in {load_cached(c, year, F, EmptyFrame)}})

\* ------------------------------------------------------------ the program
\* cache: the cache directory; rawcols: the variables of the raw tables;
\* calls: the calls made; last: the outcome of the last call; args, total:
\* the arguments and the result of a call of sum_na on its own.
VARIABLES cache, rawcols, calls, last, args, total

vars == <<cache, rawcols, calls, last, args, total>>

\* The field names a caller asks for.
Requestable == Declared \cup {"year"}

\* Field lists without repetition of at most MaxFields names; <<>> is None.
FieldLists ==
    {f \in UNION {[1..k -> Requestable] : k \in 0..MaxFields} :
        \A i, j \in 1..Len(f) : f[i] = f[j] => i = j}

NoCall == Outcome(0, <<>>, "no call", EmptyFrame, <<>>, {}, FALSE, NewSession(0, {}, EmptyFrame))

NoSum == [err |-> "no call", ret |-> PyNone]

Init ==
    /\ cache = EmptyCache
    /\ rawcols \in RawVariants
    /\ calls = 0
    /\ last = NoCall
    /\ args = <<>>
    /\ total = NoSum

\* loader.load(year, fields), by a caller that holds no table.
load(year, fields) ==
    /\ calls < MaxCalls
    /\ last = NoCall
    /\ \E r \in {Transformer_call(cache, rawcols, year, fields)} :
           /\ cache' = r.cache
           /\ last' = r.out
    /\ calls' = calls + 1
    /\ UNCHANGED <<rawcols, args, total>>

\* The caller lets go of the table it was returned, and of what it read
\* from the cache.
release ==
    /\ last # NoCall
    /\ last' = NoCall
    /\ args' = <<>>
    /\ total' = NoSum
    /\ UNCHANGED <<cache, rawcols, calls>>

Next ==
    \/ \E year \in Years, fields \in FieldLists : load(year, fields)
    \/ release

Spec == Init /\ [][Next]_vars

\* ------------------------------- a caller that asks for an unknown name
\* Field lists that hold a name without a descriptor (a raw variable, which
\* a raw table may lack).
UndeclaredLists ==
    {f \in UNION {[1..k -> Requestable \cup {"V76"}] : k \in 1..MaxFields} :
        /\ \A i, j \in 1..Len(f) : f[i] = f[j] => i = j
        /\ \E i \in 1..Len(f) : f[i] = "V76"}

NamesNext ==
    \/ \E year \in Years, fields \in UndeclaredLists : load(year, fields)
    \/ release

SpecNames == Init /\ [][NamesNext]_vars

\* ------------------------------------------- a caller that looks again
\* loader.load(year, fields) once more, with the year and the fields of the
\* table the caller holds.
load_again ==
    /\ calls < MaxCalls
    /\ last # NoCall /\ total = NoSum
    /\ \E r \in {Transformer_call(cache, rawcols, last.year, last.fields)} :
           /\ cache' = r.cache
           /\ last' = r.out
    /\ calls' = calls + 1
    /\ UNCHANGED <<rawcols, args, total>>

\* Cache().load(year, cols): the caller of load reads back from the cache
\* the fields it asked for.
cache_load ==
    /\ last # NoCall /\ total = NoSum
    /\ args' = [year |-> last.year, cols |-> requested(last.fields)]
    /\ total' = Cache_load(cache, last.year, requested(last.fields))
    /\ UNCHANGED <<cache, rawcols, calls, last>>

CallerNext ==
    \/ Next
    \/ load_again
    \/ cache_load

SpecCaller == Init /\ [][CallerNext]_vars

\* ------------------------------------------------------- sum_na on its own
\* Row-aligned columns of nulls and numbers.
Cells == {NaN, Num(3), Num(5)}
Columns(n) == [1..n -> Cells]
ArgLists == UNION {[1..k -> Columns(n)] : k \in 1..MaxArgs, n \in 0..MaxLen}

SumInit ==
    /\ cache = EmptyCache
    /\ rawcols = AllRaw
    /\ calls = 0
    /\ last = NoCall
    /\ args \in ArgLists
    /\ total = NoSum

\* sum_na(*args)
call_sum_na ==
    /\ total = NoSum
    /\ total' = sum_na([j \in 1..Len(args) |-> ndarray(args[j])])
    /\ UNCHANGED <<cache, rawcols, calls, last, args>>

SumNext == call_sum_na

SpecSum == SumInit /\ [][SumNext]_vars

\* ------------------------------------------- Field.transform on its own
\* Longest raw column handed to a descriptor on its own.
MaxCol == 4

\* Raw values: the six income sentinels and three values that are none of them.
RawCells == IncomeMissing \cup {Num(10), Num(42), Num(99)}
RawColumns == UNION {[1..n -> RawCells] : n \in 0..MaxCol}

\* A descriptor that reads the raw variable "V" at every year, its kind and
\* its missing sentinel, and the column "V" of the raw table.
TransformInputs ==
    [kind : {"Field", "IncomeField"}, missing : {Num(-1), Num(99), NoneCell},
     col : RawColumns]

TransformInit ==
    /\ cache = EmptyCache
    /\ rawcols = AllRaw
    /\ calls = 0
    /\ last = NoCall
    /\ args \in TransformInputs
    /\ total = NoSum

\* The frame of a session that already holds the raw column "V".
FrameOf(col) == PutColumn([EmptyFrame EXCEPT !.n = Len(col)], "V", col)

\* descriptor.transform(loader, df) for the descriptor and the column of args.
call_transform ==
    /\ total = NoSum
    /\ LET d == [kind |-> args.kind, spec |-> <<Item(<<Ellipsis, Ellipsis>>, Col("V"))>>,
                 missing |-> args.missing, deps |-> <<>>]
           s == NewSession(1977, {}, FrameOf(args.col))
       IN  \E r \in {IF d.kind = "Field" THEN Field_transform(s, d)
                     ELSE IncomeField_transform(s, d)} :
               total' = [err |-> r.err, ret |-> r.ret]
    /\ UNCHANGED <<cache, rawcols, calls, last, args>>

TransformNext == call_transform

SpecTransform == TransformInit /\ [][TransformNext]_vars

\* ------------------------------------------- select_by_year on its own
\* Most items of a per-year specification handed to select_by_year.
MaxItems == 3

\* Keys of a specification: a year, a closed range, ranges open at one end
\* with `...` or None; two of them stand for the same interval.
SpecKeys ==
    {<<1990>>, <<1990, 1990>>, <<Ellipsis, 1990>>, <<1991, Ellipsis>>,
     <<1989, 1991>>, <<NoBound, 1989>>, <<1992, NoBound>>}
SpecValues == {Col("V75"), Unavailable, Literal(1)}
SpecYears == 1988..1992

\* The specifications of at most MaxItems items, a key at most once (a dict),
\* in every order of writing.
YearSpecs ==
    {D \in UNION {[1..k -> [key : SpecKeys, value : SpecValues]] : k \in 0..MaxItems} :
        \A i, j \in 1..Len(D) : D[i].key = D[j].key => i = j}

SelectInit ==
    /\ cache = EmptyCache
    /\ rawcols = AllRaw
    /\ calls = 0
    /\ last = NoCall
    /\ args \in [year : SpecYears, D : YearSpecs]
    /\ total = NoSum

\* select_by_year(year, D)
call_select_by_year ==
    /\ total = NoSum
    /\ \E r \in {select_by_year(args.year, args.D)} :
           total' = [err |-> r.err, ret |-> r.value]
    /\ UNCHANGED <<cache, rawcols, calls, last, args>>

SelectNext == call_select_by_year

SpecSelect == SelectInit /\ [][SelectNext]_vars

\* ------------------------------ Field.transform of a literal on its own
\* The numbers a specification gives as literal outcome.
LiteralValues == 0..5

\* The columns a working table may hold when the field is evaluated: none,
\* or up to two raw variables of the year, one value per surveyed unit.
HeldLists ==
    {h \in UNION {[1..k -> {"V75", "V9532", "V4732"}] : k \in 0..2} :
        \A i, j \in 1..Len(h) : h[i] = h[j] => i = j}

RECURSIVE FrameWith(_)
FrameWith(names) ==
    IF names = <<>> THEN EmptyFrame
    ELSE PutColumn([FrameWith(Tail(names)) EXCEPT !.n = NRows],
                   Head(names), RawColumn(Head(names)))

LiteralInit ==
    /\ cache = EmptyCache
    /\ rawcols = AllRaw
    /\ calls = 0
    /\ last = NoCall
    /\ args \in [value : LiteralValues, year : Years, held : HeldLists]
    /\ total = NoSum

\* Field({(..., 1990): v, (1992, ...): v + 1}).transform(loader, df), df the
\* proxy of the frame that holds the columns of args.
call_transform_literal ==
    /\ total = NoSum
    /\ LET d == Field(<<Item(<<Ellipsis, 1990>>, Literal(args.value)),
                        Item(<<1992, Ellipsis>>, Literal(args.value + 1))>>)
           s == NewSession(args.year, AllRaw, FrameWith(args.held))
       IN  \E r \in {Field_transform(s, d)} :
               total' = [err |-> r.err, ret |-> r.ret]
    /\ UNCHANGED <<cache, rawcols, calls, last, args>>

LiteralNext == call_transform_literal

SpecLiteral == LiteralInit /\ [][LiteralNext]_vars

\* ------------------------------------ the declared specifications resolved
\* economy.py 175-180, in the order written.
income_investments ==
    IncomeField(<<Item(<<1992, Ellipsis>>, Col("V1273")), Item(<<Ellipsis, 1990>>, Unavailable),
                  Item(<<1979>>, Col("V2361")), Item(<<1978>>, Col("V2483")),
                  Item(<<1977>>, Col("V95")), Item(<<1976>>, Unavailable)>>)

\* The descriptors of the class that hold a per-year specification.
SpecFields ==
    {f \in Declared : Catalog[f].kind # "FunctionField"} \cup {"income_investments"}

SpecOf(f) == IF f = "income_investments" THEN income_investments.spec ELSE Catalog[f].spec

\* The survey years a specification is resolved at.
CatalogYears == 1976..1995

CatalogInit ==
    /\ cache = EmptyCache
    /\ rawcols = AllRaw
    /\ calls = 0
    /\ last = NoCall
    /\ args \in [field : SpecFields, year : CatalogYears]
    /\ total = NoSum

\* select_by_year(loader.year, self.spec) for a declared descriptor.
resolve_declared ==
    /\ total = NoSum
    /\ \E r \in {select_by_year(args.year, SpecOf(args.field))} :
           total' = [err |-> r.err, ret |-> r.value]
    /\ UNCHANGED <<cache, rawcols, calls, last, args>>

CatalogNext == resolve_declared

SpecCatalog == CatalogInit /\ [][CatalogNext]_vars

\* ----------------------------------------------- years specifications
\* PNAD_YEARS: the sorted years that have a data directory.
PNAD_YEARS == <<1977, 1990, 1992, 1995>>

\* Most years in a list of years handed to prepare_years.
MaxYears == 2

\* The years a caller names: available ones and two that are not.
YearInputs == {1977, 1990, 1991, 1992, 1995, 1996}

\* years((a, b)): the available years within the bounds, None or `...` open.
years(a0, b0) ==
    LET a == IF a0 = Ellipsis THEN NoBound ELSE a0
        b == IF b0 = Ellipsis THEN NoBound ELSE b0
    IN  IF a # NoBound /\ b # NoBound
        THEN SelectSeq(PNAD_YEARS, LAMBDA y : a <= y /\ y <= b)
        ELSE IF b # NoBound THEN SelectSeq(PNAD_YEARS, LAMBDA y : y <= b)
        ELSE IF a # NoBound THEN SelectSeq(PNAD_YEARS, LAMBDA y : a <= y)
        ELSE PNAD_YEARS

\* A years specification: form is "none", "ellipsis", "tuple" (a, b), "int"
\* (a), "list" (ys), or "args" (ys, two or more positional years).
YearsSpec(form, a, b, ys) == [form |-> form, a |-> a, b |-> b, ys |-> ys]

YearLists(lo) ==
    UNION {[1..k -> YearInputs] : k \in lo..MaxYears}

YearsSpecs ==
    {YearsSpec("none", 0, 0, <<>>), YearsSpec("ellipsis", 0, 0, <<>>)}
    \cup {YearsSpec("tuple", a, b, <<>>) :
             a \in YearInputs \cup {Ellipsis, NoBound},
             b \in YearInputs \cup {Ellipsis, NoBound}}
    \cup {YearsSpec("int", a, 0, <<>>) : a \in YearInputs}
    \cup {YearsSpec("list", 0, 0, ys) : ys \in YearLists(0)}
    \cup {YearsSpec("args", 0, 0, ys) : ys \in YearLists(2)}

\* prepare_years(*args); several positional years are the list of them.
prepare_years(yrs) ==
    IF yrs.form \in {"none", "ellipsis"} THEN PNAD_YEARS
    ELSE IF yrs.form = "tuple" THEN years(yrs.a, yrs.b)
    ELSE IF yrs.form = "int" THEN <<yrs.a>>
    ELSE SelectSeq(yrs.ys, LAMBDA yy : InSeq(yy, PNAD_YEARS))

\* valid: None (given = FALSE) or a collection of years.
ValidArgs ==
    {[given |-> FALSE, ys |-> {}]}
    \cup {[given |-> TRUE, ys |-> v] : v \in {{}, {1977, 1991}, {1990, 1992, 1995, 1996}}}

filter_years(yrs, valid) ==
    LET prepared == prepare_years(yrs)
    IN  IF ~valid.given THEN prepared
        ELSE SelectSeq(prepared, LAMBDA yy : yy \in valid.ys)

YearsInit ==
    /\ cache = EmptyCache
    /\ rawcols = AllRaw
    /\ calls = 0
    /\ last = NoCall
    /\ args \in [fn : {"prepare_years", "filter_years"}, years : YearsSpecs, valid : ValidArgs]
    /\ args.fn = "prepare_years" => ~args.valid.given
    /\ args.fn = "filter_years" => args.years.form # "args"
    /\ total = NoSum

\* prepare_years(*args)
call_prepare_years ==
    /\ total = NoSum
    /\ args.fn = "prepare_years"
    /\ total' = [err |-> "", ret |-> [t |-> "list", a |-> prepare_years(args.years)]]
    /\ UNCHANGED <<cache, rawcols, calls, last, args>>

\* filter_years(years, valid)
call_filter_years ==
    /\ total = NoSum
    /\ args.fn = "filter_years"
    /\ total' = [err |-> "", ret |-> [t |-> "list", a |-> filter_years(args.years, args.valid)]]
    /\ UNCHANGED <<cache, rawcols, calls, last, args>>

YearsNext == call_prepare_years \/ call_filter_years

SpecYearsArg == YearsInit /\ [][YearsNext]_vars

\* ------------------------------------------------------- household data
\* loader._load(which, year, fields): the transformer class is looked up in
\* a dict that holds 'person' only.
load_which(which, c, src, year, fields) ==
    IF which = "person" THEN Transformer_call(c, src, year, fields)
    ELSE [cache |-> c,
          out |-> Outcome(year, fields, "KeyError", EmptyFrame, <<>>, {}, FALSE,
                          NewSession(year, src, EmptyFrame))]

\* loader.load_household(year, fields); args keeps the kind asked for.
load_household(year, fields) ==
    /\ calls < MaxCalls
    /\ last = NoCall
    /\ \E r \in {load_which("household", cache, rawcols, year, fields)} :
           /\ cache' = r.cache
           /\ last' = r.out
    /\ calls' = calls + 1
    /\ args' = <<"household">>
    /\ UNCHANGED <<rawcols, total>>

HouseholdNext ==
    \/ \E year \in Years, fields \in FieldLists : load_household(year, fields)
    \/ release

SpecHousehold == Init /\ [][HouseholdNext]_vars

\* ------------------------------------------ a proxy accessed on its own
\* Most accesses made through one proxy.
MaxAccess == 2

\* The names read through the proxy: the declared fields and two raw variables.
ProxyNames == Declared \cup {"V75", "V76"}

\* args holds the session of the proxy and, access by access, the name
\* read with what the access returned or raised.
ProxyInit ==
    /\ cache = EmptyCache
    /\ rawcols \in RawVariants
    /\ calls = 0
    /\ last = NoCall
    /\ \E year \in Years :
           args = [s |-> NewSession(year, rawcols, EmptyFrame), seen |-> <<>>]
    /\ total = NoSum

\* df.<item> (exc = AttributeError) or df[item] (exc = KeyError) on the proxy.
proxy_access(item, exc) ==
    /\ Len(args.seen) < MaxAccess
    /\ args.s.err = ""
    /\ \E r \in {proxy_get(args.s, item, exc)} :
           args' = [s |-> r,
                    seen |-> Append(args.seen, [name |-> item, err |-> r.err,
                                                ret |-> IF r.err = "" THEN r.ret ELSE PyNone])]
    /\ UNCHANGED <<cache, rawcols, calls, last, total>>

ProxyNext ==
    \E item \in ProxyNames, exc \in {"AttributeError", "KeyError"} : proxy_access(item, exc)

SpecProxy == ProxyInit /\ [][ProxyNext]_vars

\* ------------------------------------------------- sum_na, call in call
\* Longest column of the three handed to nested calls of sum_na.
MaxRow == 2

\* Three row-aligned columns a, b, c.
Triples == UNION {[1..3 -> Columns(n)] : n \in 0..MaxRow}

LawsInit ==
    /\ cache = EmptyCache
    /\ rawcols = AllRaw
    /\ calls = 0
    /\ last = NoCall
    /\ args \in Triples
    /\ total = NoSum

\* sum_na(a, b), sum_na(b, a), sum_na(sum_na(a, b), c), sum_na(a, b, c) and
\* sum_na(a), and the arrays a, b, c after the calls.
call_sum_na_nested ==
    /\ total = NoSum
    /\ LET a == ndarray(args[1])
           b == ndarray(args[2])
           c == ndarray(args[3])
       IN  \E ab \in {sum_na(<<a, b>>)} :
               total' = [err |-> ab.err, ret |-> ab.ret,
                         ba |-> sum_na(<<b, a>>),
                         nested |-> IF ab.err = "" THEN sum_na(<<ab.ret, c>>) ELSE ab,
                         flat |-> sum_na(<<a, b, c>>),
                         single |-> sum_na(<<a>>),
                         inputs |-> sum_na_inputs(<<a, b, c>>)]
    /\ UNCHANGED <<cache, rawcols, calls, last, args>>

LawsNext == call_sum_na_nested

SpecSumLaws == LawsInit /\ [][LawsNext]_vars

\* ------------------------------- the dependency graph of PersonTransformer
\* The descriptors of PersonTransformer and its mixins that are functions of
\* the working table (economy.py, person.py).
GraphFunctions ==
    {"income_work_main_money", "income_work_main", "income_work_secondary_money",
     "income_work_secondary", "income_work_extra_money", "income_work_extra",
     "income_work_other_money", "income_work_other_products", "income_work_other",
     "income_work_money", "income_work_products", "income_pension",
     "income_retirement", "income_social", "income_capital", "income_misc",
     "income_work", "income", "occupation", "gender_id", "gender", "age",
     "race_id", "race", "education_years", "state", "number_of_children"}

\* hasattr(transformer, item) over the whole class: the functions, the
\* descriptors of class Field and those of class IncomeField.
GraphDeclared ==
    GraphFunctions
    \cup {"is_active", "is_occupied", "occupation_father", "occupation_father_previous",
          "occupation_first", "occupation_previous", "occupation_secondary",
          "occupation_week", "occupation_year", "weight", "weight_family",
          "weight_househould", "work_duration"}
    \cup {"income_donation", "income_family", "income_family_per_capta", "income_household",
          "income_household_per_capta", "income_investments", "income_other",
          "income_pension_main", "income_pension_other", "income_permanence_bonus",
          "income_rent", "income_retirement_main", "income_retirement_other",
          "income_work_extra_money_fixed", "income_work_extra_money_variable",
          "income_work_extra_products", "income_work_main_money_fixed",
          "income_work_main_money_variable", "income_work_main_products",
          "income_work_secondary_money_fixed", "income_work_secondary_money_variable",
          "income_work_secondary_products"}

\* The raw variables the functions read at the years of the model; the raw
\* table of a year holds them, and no canonical name.
GraphRaw ==
    {"V94", "V97", "V7122", "V7125", "V16", "V0302", "V22", "V8005", "V0404",
     "V136", "V4703", "V2", "UF"}

\* A catalog with a cycle: income_work_main_money reads income_work_main,
\* which reads it back.
Reads_cyclic(f, year, held) ==
    CASE f = "income_work_main_money" ->
             <<"income_work_main_money_variable", "income_work_main">>
      [] f = "income_work_main" -> <<"income_work_main_money", "income_work_main_products">>
      [] f = "income_work_secondary_money" ->
             <<"income_work_secondary_money_fixed", "income_work_secondary_money_variable">>
      [] f = "income_work_secondary" ->
             <<"income_work_secondary_money", "income_work_secondary_products">>
      [] f = "income_work_extra_money" ->
             <<"income_work_extra_money_fixed", "income_work_extra_money_variable">>
      [] f = "income_work_extra" -> <<"income_work_extra_money", "income_work_extra_products">>
      [] f = "income_work_other_money" ->
             <<"income_work_extra_money", "income_work_secondary_money">>
      [] f = "income_work_other_products" ->
             <<"income_work_extra_products", "income_work_secondary_products">>
      [] f = "income_work_other" -> <<"income_work_other_money", "income_work_other_products">>
      [] f = "income_work_money" -> <<"income_work_extra_money", "income_work_main_money">>
      [] f = "income_work_products" ->
             <<"income_work_extra_products", "income_work_main_products">>
      [] f = "income_pension" -> <<"income_pension_main", "income_pension_other">>
      [] f = "income_retirement" -> <<"income_retirement_main", "income_retirement_other">>
      [] f = "income_social" ->
             <<"income_pension", "income_retirement", "income_permanence_bonus">>
      [] f = "income_capital" ->
             <<"income_rent", "income_investiments">>
             \o (IF year = 1977 THEN <<"V94", "V97">> ELSE <<>>)
      [] f = "income_misc" -> <<"income_donation", "income_other">>
      [] f = "income_work" ->
             <<"income_work_main", "income_work_other">>
             \o (IF year > 1992 /\ "V7122" \in held /\ "V7125" \in held
                 THEN <<"V7122", "V7125">> ELSE <<>>)
      [] f = "income" -> <<"income_work", "income_social", "income_capital", "income_misc">>
      [] f = "occupation" -> <<"occupation_week">>
      [] f = "gender_id" -> IF year = 1977 THEN <<"V16", "V16">> ELSE <<"V0302", "V0302">>
      [] f = "gender" -> <<"gender_id">>
      [] f = "age" -> IF year = 1977 THEN <<"V22">> ELSE <<"V8005">>
      [] f = "race_id" -> IF year >= 1992 THEN <<"V0404">> ELSE <<>>
      [] f = "race" -> <<"race_id">>
      [] f = "education_years" -> IF year = 1977 THEN <<"V136">> ELSE <<"V4703">>
      [] f = "state" -> IF year >= 1992 THEN <<"UF">> ELSE <<"V2">>
      [] OTHER -> <<>>

\* The names a function reads from the proxy, df.<name> or df[name], in the
\* order of evaluation, at the year and with the columns the frame holds.
Reads(f, year, held) ==
    CASE f = "income_work_main_money" ->
             <<"income_work_main_money_variable", "income_work_main_money_fixed">>
      [] f = "income_work_main" -> <<"income_work_main_money", "income_work_main_products">>
      [] f = "income_work_secondary_money" ->
             <<"income_work_secondary_money_fixed", "income_work_secondary_money_variable">>
      [] f = "income_work_secondary" ->
             <<"income_work_secondary_money", "income_work_secondary_products">>
      [] f = "income_work_extra_money" ->
             <<"income_work_extra_money_fixed", "income_work_extra_money_variable">>
      [] f = "income_work_extra" -> <<"income_work_extra_money", "income_work_extra_products">>
      [] f = "income_work_other_money" ->
             <<"income_work_extra_money", "income_work_secondary_money">>
      [] f = "income_work_other_products" ->
             <<"income_work_extra_products", "income_work_secondary_products">>
      [] f = "income_work_other" -> <<"income_work_other_money", "income_work_other_products">>
      [] f = "income_work_money" -> <<"income_work_extra_money", "income_work_main_money">>
      [] f = "income_work_products" ->
             <<"income_work_extra_products", "income_work_main_products">>
      [] f = "income_pension" -> <<"income_pension_main", "income_pension_other">>
      [] f = "income_retirement" -> <<"income_retirement_main", "income_retirement_other">>
      [] f = "income_social" ->
             <<"income_pension", "income_retirement", "income_permanence_bonus">>
      [] f = "income_capital" ->
             <<"income_rent", "income_investiments">>
             \o (IF year = 1977 THEN <<"V94", "V97">> ELSE <<>>)
      [] f = "income_misc" -> <<"income_donation", "income_other">>
      [] f = "income_work" ->
             <<"income_work_main", "income_work_other">>
             \o (IF year > 1992 /\ "V7122" \in held /\ "V7125" \in held
                 THEN <<"V7122", "V7125">> ELSE <<>>)
      [] f = "income" -> <<"income_work", "income_social", "income_capital", "income_misc">>
      [] f = "occupation" -> <<"occupation_week">>
      [] f = "gender_id" -> IF year = 1977 THEN <<"V16", "V16">> ELSE <<"V0302", "V0302">>
      [] f = "gender" -> <<"gender_id">>
      [] f = "age" -> IF year = 1977 THEN <<"V22">> ELSE <<"V8005">>
      [] f = "race_id" -> IF year >= 1992 THEN <<"V0404">> ELSE <<>>
      [] f = "race" -> <<"race_id">>
      [] f = "education_years" -> IF year = 1977 THEN <<"V136">> ELSE <<"V4703">>
      [] f = "state" -> IF year >= 1992 THEN <<"UF">> ELSE <<"V2">>
      [] OTHER -> <<>>

\* The mapped fields whose specification has no interval for the year.
NoRangeAt(year) == IF year = 1977 THEN {"weight_family"} ELSE {}

\* Deepest nesting of descriptor calls followed.
MaxDepth == 8

\* One session, by the names only.  args holds: the year, the fields asked
\* for (any one declared field, or two functions) and how many the call loop
\* has passed, the descriptors being evaluated (innermost last, each with the
\* number of reads it has made and whether a read gave None), the columns
\* stored in the frame, the names resolved to None, the names looked up in
\* the raw table, and the error raised.
GraphInit ==
    /\ cache = EmptyCache
    /\ rawcols = AllRaw
    /\ calls = 0
    /\ last = NoCall
    /\ \E year \in Years,
          roots \in {<<f>> : f \in GraphDeclared}
                    \cup {r \in GraphFunctions \X GraphFunctions : r[1] # r[2]} :
           args = [year |-> year, roots |-> roots, k |-> 0, stack |-> <<>>,
                   held |-> {}, none |-> {}, fell |-> <<>>, err |-> ""]
    /\ total = NoSum

\* The descriptor being evaluated.
Top == args.stack[Len(args.stack)]

\* Transformer.__call__, the loop: the next requested field that is not a
\* column of the frame is asked of the proxy.
request_field ==
    /\ args.err = "" /\ args.stack = <<>> /\ args.k < Len(args.roots)
    /\ LET attr == args.roots[args.k + 1]
       IN  args' = [args EXCEPT
                      !.k = @ + 1,
                      !.stack = IF attr \in args.held THEN <<>>
                                ELSE <<[name |-> attr, pos |-> 0, gotNone |-> FALSE]>>]
    /\ UNCHANGED <<cache, rawcols, calls, last, total>>

\* DataFrameProxy.__getattr__ / __getitem__: the frame holds the name.
read_held ==
    /\ args.err = "" /\ args.stack # <<>>
    /\ LET reads == Reads(Top.name, args.year, args.held)
       IN  /\ Top.pos < Len(reads)
           /\ reads[Top.pos + 1] \in args.held
    /\ args' = [args EXCEPT !.stack[Len(args.stack)].pos = @ + 1]
    /\ UNCHANGED <<cache, rawcols, calls, last, total>>

\* _fallback, hasattr(transformer, item): the descriptor is called.
read_declared ==
    /\ args.err = "" /\ args.stack # <<>>
    /\ Len(args.stack) < MaxDepth
    /\ LET reads == Reads(Top.name, args.year, args.held)
       IN  /\ Top.pos < Len(reads)
           /\ reads[Top.pos + 1] \notin args.held
           /\ reads[Top.pos + 1] \in GraphDeclared
           /\ args' = [args EXCEPT
                          !.stack = Append(@, [name |-> reads[Top.pos + 1], pos |-> 0,
                                               gotNone |-> FALSE])]
    /\ UNCHANGED <<cache, rawcols, calls, last, total>>

\* _fallback, no descriptor: the raw table is looked up; a name it lacks
\* raises the original exception.
read_raw ==
    /\ args.err = "" /\ args.stack # <<>>
    /\ LET reads == Reads(Top.name, args.year, args.held)
       IN  /\ Top.pos < Len(reads)
           /\ reads[Top.pos + 1] \notin args.held
           /\ reads[Top.pos + 1] \notin GraphDeclared
           /\ IF reads[Top.pos + 1] \in GraphRaw
              THEN args' = [args EXCEPT !.fell = Append(@, reads[Top.pos + 1]),
                                        !.held = @ \cup {reads[Top.pos + 1]},
                                        !.stack[Len(args.stack)].pos = @ + 1]
              ELSE args' = [args EXCEPT !.fell = Append(@, reads[Top.pos + 1]),
                                        !.err = "AttributeError"]
    /\ UNCHANGED <<cache, rawcols, calls, last, total>>

\* The descriptor returns None: a Field whose specification gives None at
\* the year, race_id before 1992, number_of_children outside 1984, and race
\* when the read of race_id gave None.
ReturnsNone ==
    \/ /\ args.year = 1977
       /\ Top.name \in {"is_active", "is_occupied", "occupation_father",
                        "occupation_father_previous", "occupation_first",
                        "occupation_previous", "occupation_secondary",
                        "occupation_year", "work_duration"}
    \/ Top.name = "race_id" /\ args.year < 1992
    \/ Top.name = "number_of_children" /\ args.year # 1984
    \/ Top.name = "race" /\ Top.gotNone

\* The descriptor returns: _fallback stores the result in the frame and
\* hands it to the reader.
return_value ==
    /\ args.err = "" /\ args.stack # <<>>
    /\ Top.pos = Len(Reads(Top.name, args.year, args.held))
    /\ Top.name \notin NoRangeAt(args.year)
    /\ LET f == Top.name
           rest == SubSeq(args.stack, 1, Len(args.stack) - 1)
       IN  args' = [args EXCEPT
                      !.held = @ \cup {f},
                      !.none = IF ReturnsNone THEN @ \cup {f} ELSE @,
                      !.stack = IF rest = <<>> THEN <<>>
                                ELSE [rest EXCEPT ![Len(rest)] =
                                        [@ EXCEPT !.pos = @ + 1,
                                                  !.gotNone = @ \/ ReturnsNone]]]
    /\ UNCHANGED <<cache, rawcols, calls, last, total>>

\* The descriptor raises: a specification without an interval for the year,
\* or an error in the body of a function (sum_na on columns of different
\* lengths, a failed assertion, a value without conversion).
raise_error ==
    /\ args.err = "" /\ args.stack # <<>>
    /\ Top.pos = Len(Reads(Top.name, args.year, args.held))
    /\ Top.name \in NoRangeAt(args.year) \cup GraphFunctions
    /\ args' = [args EXCEPT !.err = "ValueError"]
    /\ UNCHANGED <<cache, rawcols, calls, last, total>>

GraphNext ==
    \/ request_field
    \/ read_held
    \/ read_declared
    \/ read_raw
    \/ return_value
    \/ raise_error

SpecGraph == GraphInit /\ [][GraphNext]_vars

\* Every step the code can take is taken: the interpreter runs on.
SpecGraphFair == SpecGraph /\ WF_vars(GraphNext)

\* ------------------------------------------------------- the State enum
\* enums.State is an IntFlag whose values pass 2^31, so a value is held as
\* the set of the positions of its one bits: & is \cap, | is \cup.

\* The value of a binary literal, most significant digit first.
Bin(digits) == {Len(digits) - i : i \in {j \in 1..Len(digits) : digits[j] = 1}}

\* value << n
Shl(value, n) == {b + n : b \in value}

\* The members of State given by a literal, as the class body writes them.
State ==
    [UNKNOWN |-> Bin(<<0>>),
     \* Sul
     RS |-> Bin(<<1,0,0,1>>),
     SC |-> Bin(<<1,0,1,0>>),
     PR |-> Bin(<<1,1,0,0>>),
     \* Sudeste
     SP |-> Shl(Bin(<<1,0,0,0,1>>), 4),
     RJ |-> Shl(Bin(<<1,0,0,1,0>>), 4),
     MG |-> Shl(Bin(<<1,0,1,0,0>>), 4),
     ES |-> Shl(Bin(<<1,1,0,0,0>>), 4),
     \* Centro-oeste
     MS |-> Shl(Bin(<<1,0,0,0,1>>), 9),
     MT |-> Shl(Bin(<<1,0,0,1,0>>), 9),
     GO |-> Shl(Bin(<<1,0,1,0,0>>), 9),
     DF |-> Shl(Bin(<<1,1,0,0,0>>), 9),
     \* Nordeste
     BA |-> Shl(Bin(<<1,0,0,0,0,0,0,0,0,1>>), 14),
     AL |-> Shl(Bin(<<1,0,0,0,0,0,0,0,1,0>>), 14),
     SE |-> Shl(Bin(<<1,0,0,0,0,0,0,1,0,0>>), 14),
     PE |-> Shl(Bin(<<1,0,0,0,0,0,1,0,0,0>>), 14),
     PB |-> Shl(Bin(<<1,0,0,0,0,1,0,0,0,0>>), 14),
     RN |-> Shl(Bin(<<1,0,0,0,1,0,0,0,0,0>>), 14),
     CE |-> Shl(Bin(<<1,0,0,1,0,0,0,0,0,0>>), 14),
     PI |-> Shl(Bin(<<1,0,1,0,0,0,0,0,0,0>>), 14),
     MA |-> Shl(Bin(<<1,1,0,0,0,0,0,0,0,0>>), 14),
     \* Norte
     TO |-> Shl(Bin(<<1,0,0,0,0,0,0,1>>), 24),
     PA |-> Shl(Bin(<<1,0,0,0,0,0,1,0>>), 24),
     AP |-> Shl(Bin(<<1,0,0,0,0,1,0,0>>), 24),
     AM |-> Shl(Bin(<<1,0,0,0,1,0,0,0>>), 24),
     RR |-> Shl(Bin(<<1,0,0,1,0,0,0,0>>), 24),
     AC |-> Shl(Bin(<<1,0,1,0,0,0,0,0>>), 24),
     RO |-> Shl(Bin(<<1,1,0,0,0,0,0,0>>), 24),
     \* Regions
     SUL |-> Bin(<<1,0,0,0>>),
     SUDESTE |-> Shl(Bin(<<1,0,0,0,0>>), 4),
     CENTRO_OESTE |-> Shl(Bin(<<1,0,0,0,0>>), 9),
     NORDESTE |-> Shl(Bin(<<1,0,0,0,0>>), 14),
     NORTE |-> Shl(Bin(<<1,0,0,0,0>>), 24)]

\* Masks
ANY_REGION ==
    State.SUL \cup State.SUDESTE \cup State.CENTRO_OESTE \cup State.NORTE \cup State.NORDESTE

\* One state member and one region flag are picked; args.op names the
\* expression evaluated on them.
StateInit ==
    /\ cache = EmptyCache
    /\ rawcols = AllRaw
    /\ calls = 0
    /\ last = NoCall
    /\ \E r \in {"SUL", "SUDESTE", "CENTRO_OESTE", "NORDESTE", "NORTE"} :
       \E s \in DOMAIN State \ {"UNKNOWN", "SUL", "SUDESTE", "CENTRO_OESTE", "NORDESTE", "NORTE"} :
           args = [s |-> s, r |-> r, op |-> ""]
    /\ total = NoSum

\* State.<s> & State.<r>
state_and_region ==
    /\ args.op = ""
    /\ args' = [args EXCEPT !.op = "s & r"]
    /\ total' = [err |-> "", ret |-> State[args.s] \cap State[args.r]]
    /\ UNCHANGED <<cache, rawcols, calls, last>>

\* State.<s> & State.ANY_REGION
state_and_any_region ==
    /\ args.op = ""
    /\ args' = [args EXCEPT !.op = "s & ANY_REGION"]
    /\ total' = [err |-> "", ret |-> State[args.s] \cap ANY_REGION]
    /\ UNCHANGED <<cache, rawcols, calls, last>>

StateNext ==
    \/ state_and_region
    \/ state_and_any_region

SpecState == StateInit /\ [][StateNext]_vars

\* ================================================================ claims
Asked == requested(last.fields)
Position(x, seq) == CHOOSE i \in 1..Len(seq) : seq[i] = x

\* C1: two calls in succession with the same year and the same field list:
\* the second returns the table the first returned, and the raw-source
\* loader is invoked at most once over the two calls.
C1_Idempotent ==
    [][(last.err = "" /\ last'.err = "" /\ last'.year = last.year
          /\ last'.fields = last.fields)
       => (last'.table = last.table /\ last.loads + last'.loads <= 1)]_vars

\* C2: when every requested field other than 'year' has a cache entry for
\* the year as the call starts, the call never invokes the loader and writes
\* no cache entry, with or without 'year' among the requested fields.
C2_AllCachedTouchesNothing ==
    [][(calls' = calls + 1
          /\ \A f \in SeqSet(requested(last'.fields)) \ {"year"} :
                HasEntry(cache, last'.year, f))
       => (last'.loads = 0 /\ last'.saved = <<>> /\ cache' = cache)]_vars

\* A call that asked for 'year' and a field, found the field cached, and so
\* went through the loop without loading or saving.
C2_Witness ==
    /\ last.err = "" /\ ~last.fast
    /\ InSeq("year", Asked) /\ Len(Asked) >= 2
    /\ SeqSet(Asked) \ {"year"} \subseteq last.cached
    /\ last.loads = 0 /\ last.saved = <<>>

\* C3: after a call returns, every requested field other than 'year' whose
\* descriptor ran in this call and gave a column has the cache entry
\* (year, field) holding that column, whatever the order of the field list.
C3_ComputedFieldsAreCached ==
    last.err = "" =>
        \A f \in SeqSet(Asked) \cap Declared :
            (last.evals[f] > 0 /\ last.rets[f].t = "ndarray")
            => (HasEntry(cache, last.year, f)
                /\ cache[<<last.year, f>>] = last.rets[f].a)

\* C4: asking for the single field f, a Field or IncomeField whose
\* specification gives None at the year, raises nothing and returns a table
\* without a column f.
C4_UnavailableFieldHasNoColumn ==
    \A f \in Declared :
        (last.fields = <<f>> /\ Catalog[f].kind \in {"Field", "IncomeField"}
           /\ select_by_year(last.year, Catalog[f].spec) = [err |-> "", value |-> Unavailable])
        => (last.err = "" /\ ~HasColumn(last.table, f))

\* C5: in one session a name stored in the working table is not resolved
\* again: no descriptor runs twice, a field loaded from the cache never runs
\* its descriptor, and a raw column that was stored is looked up once.
C5_ResolvedOnce ==
    /\ \A f \in Declared : last.evals[f] <= 1
    /\ \A f \in last.cached : last.evals[f] = 0
    /\ \A i, j \in 1..Len(last.fell) :
          (last.fell[i] = last.fell[j] /\ last.fell[i] \in rawcols) => i = j

\* A field computed in the session and read again from the working table.
C5_Witness == \E f \in Declared : last.evals[f] = 1 /\ f \in last.hits

\* C6: a session invokes the loader at most once, and only when a name
\* without a descriptor, not yet a column, was accessed.
C6_LoaderAtMostOnce ==
    /\ last.loads <= 1
    /\ last.loads > 0 => \E i \in 1..Len(last.fell) : ~hasattr(last.fell[i])

\* A session in which two names fell back to the raw source.
C6_Witness == last.loads = 1 /\ Len(last.fell) >= 2

\* C7: the columns of the returned table are in the order of the field list.
C7_RequestedOrder ==
    last.err = "" =>
        \A i, j \in 1..Len(last.table.cols) :
            (i < j /\ InSeq(last.table.cols[i], Asked) /\ InSeq(last.table.cols[j], Asked))
            => Position(last.table.cols[i], Asked) < Position(last.table.cols[j], Asked)

\* A returned table with two columns that the working table holds in the
\* opposite order.
C7_Witness ==
    /\ last.err = ""
    /\ \E i, j \in 1..Len(last.table.cols) :
          /\ i < j
          /\ Position(last.table.cols[j], last.frame) < Position(last.table.cols[i], last.frame)

\* C8: the returned table has no column outside the field list.
C8_OnlyRequestedColumns ==
    last.err = "" =>
        /\ SeqSet(last.table.cols) \subseteq SeqSet(Asked)
        /\ DOMAIN last.table.val \subseteq SeqSet(Asked)

\* A call whose working table held a dependency field and a raw column that
\* were not requested.
C8_Witness ==
    /\ last.err = "" /\ last.table.cols # <<>>
    /\ \E f \in Declared : InSeq(f, last.frame) /\ ~InSeq(f, Asked)
    /\ \E c \in rawcols : InSeq(c, last.frame)

\* The raw variable a raw-mapping field reads at a year, when it has one
\* that the raw table holds.
MapsToRaw(f, year) ==
    /\ Catalog[f].kind \in {"Field", "IncomeField"}
    /\ LET sel == select_by_year(year, Catalog[f].spec)
       IN  sel.err = "" /\ sel.value.t = "col" /\ sel.value.c \in rawcols
RawOf(f, year) == select_by_year(year, Catalog[f].spec).value.c

\* The raw value of field f at row i, nulls for its sentinels.
Cleaned(f, year, i) ==
    LET v == RawValue(RawOf(f, year), i)
    IN  IF Num(v) = Catalog[f].missing
           \/ (Catalog[f].kind = "IncomeField" /\ Num(v) \in IncomeMissing)
        THEN NaN ELSE Num(v)

Plus(x, y) ==
    IF x = NaN /\ y = NaN THEN NaN
    ELSE Num((IF x = NaN THEN 0 ELSE x.v) + (IF y = NaN THEN 0 ELSE y.v))

\* C9: from an empty cache, asking for a function field g over two
\* raw-mapped fields a and b alone returns one column g, row by row the
\* null-tolerant sum of the raw columns a and b map to at the year.
C9_FunctionOfRawFields ==
    [][\A g \in Declared :
          (/\ cache = EmptyCache /\ calls' = calls + 1
           /\ last'.fields = <<g>>
           /\ Catalog[g].kind = "FunctionField" /\ Len(Catalog[g].deps) = 2
           /\ \A k \in 1..2 : MapsToRaw(Catalog[g].deps[k], last'.year))
          => (/\ last'.err = ""
              /\ last'.table.cols = <<g>>
              /\ last'.table.val[g] =
                    [i \in 1..NRows |->
                        Plus(Cleaned(Catalog[g].deps[1], last'.year, i),
                             Cleaned(Catalog[g].deps[2], last'.year, i))])]_vars

\* The first call of a behaviour asked for such a function field alone.
C9_Witness ==
    /\ calls = 1 /\ last.err = ""
    /\ \E g \in Declared :
          /\ last.fields = <<g>> /\ Catalog[g].kind = "FunctionField"
          /\ \A k \in 1..2 : MapsToRaw(Catalog[g].deps[k], last.year)
          /\ \A k \in 1..2 : last.evals[Catalog[g].deps[k]] = 1

RECURSIVE SumOver(_, _)
SumOver(S, i) ==
    IF S = {} THEN 0
    ELSE LET j == CHOOSE j \in S : TRUE
         IN  args[j][i].v + SumOver(S \ {j}, i)

\* C10: sum_na of row-aligned columns is, at each row, null when every input
\* is null there and otherwise the sum of the inputs that are not null.
C10_SumNa ==
    total # NoSum =>
        /\ total.err = "" /\ total.ret.t = "ndarray"
        /\ Len(total.ret.a) = Len(args[1])
        /\ \A i \in 1..Len(args[1]) :
              LET present == {j \in 1..Len(args) : args[j][i] # NaN}
              IN  total.ret.a[i] = IF present = {} THEN NaN ELSE Num(SumOver(present, i))

\* [null, 5, null] and [null, null, 3] were added.
C10_Witness ==
    /\ args = << <<NaN, Num(5), NaN>>, <<NaN, NaN, Num(3)>> >>
    /\ total.err = "" /\ total.ret.a = <<NaN, Num(5), Num(3)>>

\* The values IncomeField declares as missing.
C11_IncomeSentinels ==
    {Num(-1), Num(999999), Num(9999999), Num(99999999), Num(999999999), Nines12}

\* C11: Field.transform makes null every raw value equal to the field's
\* missing sentinel and passes the others through; IncomeField makes null,
\* besides, the values -1, 999999, 9999999, 99999999, 999999999 and
\* 999999999999, and leaves every other value as it is.
C11_SentinelsBecomeNull ==
    (total # NoSum /\ args \in TransformInputs) =>
        /\ total.err = "" /\ total.ret.t = "ndarray"
        /\ Len(total.ret.a) = Len(args.col)
        /\ \A i \in 1..Len(args.col) :
              total.ret.a[i] =
                 IF args.missing # NoneCell /\ args.col[i] = args.missing THEN NaN
                 ELSE IF args.kind = "IncomeField" /\ args.col[i] \in C11_IncomeSentinels
                 THEN NaN
                 ELSE args.col[i]

\* An IncomeField turned [10, -1, 999999, 42] into [10, null, null, 42].
C11_Witness ==
    /\ args \in TransformInputs /\ args.kind = "IncomeField"
    /\ args.col = <<Num(10), Num(-1), Num(999999), Num(42)>>
    /\ total.err = "" /\ total.ret.a = <<Num(10), NaN, NaN, Num(42)>>

\* The interval a key of a per-year specification stands for contains year.
C12_Covers(key, year) ==
    LET lo == key[1]
        hi == key[Len(key)]
    IN  /\ lo \in {Ellipsis, NoBound} \/ lo <= year
        /\ hi \in {Ellipsis, NoBound} \/ year <= hi

C12_NoInterval(f, year) ==
    /\ Catalog[f].kind \in {"Field", "IncomeField"}
    /\ \A i \in 1..Len(Catalog[f].spec) : ~C12_Covers(Catalog[f].spec[i].key, year)

\* C12: when the descriptor of a field whose specification has no interval
\* containing the year is resolved in a call, the descriptor returns no
\* value and the call raises ValueError to its caller.
C12_NoMatchingRangeRaises ==
    \A f \in Declared :
        (last.evals[f] > 0 /\ C12_NoInterval(f, last.year))
        => (last.err = "ValueError" /\ last.rets[f] = Unset /\ last.table = EmptyFrame)

\* weight_family, which has no interval for 1977, was resolved in a call for
\* 1977 after another requested field.
C12_Witness ==
    /\ last.year = 1977 /\ last.evals["weight_family"] = 1
    /\ \E g \in Declared \ {"weight_family"} : last.evals[g] = 1
    /\ last.err = "ValueError"

\* The bounds of the interval a key stands for.
C13_Lo(key) == IF key[1] \in {Ellipsis, NoBound} THEN NegInf ELSE key[1]
C13_Hi(key) == IF key[Len(key)] \in {Ellipsis, NoBound} THEN PosInf ELSE key[Len(key)]

\* The items of the specification whose interval contains the year.
C13_Matching ==
    {i \in 1..Len(args.D) :
        C13_Lo(args.D[i].key) <= args.year /\ args.year <= C13_Hi(args.D[i].key)}

\* No two keys of the specification stand for the same interval.
C13_DistinctIntervals ==
    \A i, j \in 1..Len(args.D) :
        (C13_Lo(args.D[i].key) = C13_Lo(args.D[j].key)
           /\ C13_Hi(args.D[i].key) = C13_Hi(args.D[j].key)) => i = j

C14_OriginalFailureSurfaces ==
    /\ \A x \in SeqSet(Asked) \ (Declared \cup {"year"}) :
          (last.err # "no call" /\ x \notin rawcols)
          => /\ last.err # ""
             /\ InSeq([name |-> x, exc |-> "AttributeError"], last.lost)
                   => last.err = "AttributeError"
    /\ \A i \in 1..Len(last.lost) : ~InSeq(last.lost[i].name, last.frame)

\* A call resolved a declared field and then failed on a name that neither
\* the transformer nor the raw table has.
C14_Witness ==
    /\ last.err = "AttributeError"
    /\ \E i \in 1..Len(last.lost) :
          last.lost[i].name \notin rawcols /\ InSeq(last.lost[i].name, Asked)
    /\ \E f \in Declared : last.evals[f] = 1

\* C15: the raw table is read by name only for names without a descriptor; a
\* field with a descriptor is resolved by its descriptor, also when the raw
\* table holds a variable of the same name.
C15_DescriptorBeforeRaw ==
    /\ \A i \in 1..Len(last.fell) : ~hasattr(last.fell[i])
    /\ \A f \in SeqSet(Asked) \cap Declared :
          (last.err = "" /\ f \notin last.cached) => last.evals[f] = 1

\* The raw table holds a variable named occupation_year, and the field
\* occupation_year was resolved by its descriptor from V9971.
C15_Witness ==
    /\ "occupation_year" \in rawcols /\ last.err = "" /\ last.year = 1995
    /\ InSeq("occupation_year", Asked) /\ last.evals["occupation_year"] = 1
    /\ InSeq("V9971", last.fell) /\ ~InSeq("occupation_year", last.fell)
    /\ last.table.val["occupation_year"] = [i \in 1..NRows |-> Cleaned("occupation_year", 1995, i)]

\* Field f maps at the year to a raw variable that the raw table lacks.
C16_LacksRaw(f, year) ==
    /\ Catalog[f].kind \in {"Field", "IncomeField"}
    /\ LET sel == select_by_year(year, Catalog[f].spec)
       IN  sel.err = "" /\ sel.value.t = "col" /\ sel.value.c \notin rawcols

\* A call whose list holds a field f of one of the kinds, not cached, that
\* maps to a raw variable the raw table lacks: when the call for the other
\* fields of the list completes, so does this call, f's descriptor returned
\* None, and the other fields have the columns they have without f.
C16_Step(kinds) ==
    \A f \in Declared :
        LET F == requested(last'.fields)
            others == SelectSeq(F, LAMBDA x : x # f)
            alone == Transformer_call(cache, rawcols, last'.year, others).out
        IN  (/\ calls' = calls + 1
             /\ InSeq(f, F) /\ Catalog[f].kind \in kinds
             /\ C16_LacksRaw(f, last'.year) /\ ~HasEntry(cache, last'.year, f)
             /\ others = <<>> \/ alone.err = "")
            => /\ last'.err = ""
               /\ last'.evals[f] > 0 => last'.rets[f] = PyNone
               /\ others # <<>> =>
                     \A g \in SeqSet(alone.table.cols) :
                         /\ InSeq(g, last'.table.cols)
                         /\ last'.table.val[g] = alone.table.val[g]

C17_CacheMissIsLocal ==
    [][calls' = calls + 1 =>
          LET F == SeqSet(requested(last'.fields))
          IN  /\ last'.err # "CacheError"
              /\ last'.cached = {f \in F \ {"year"} : HasEntry(cache, last'.year, f)}
              /\ last'.err = "" =>
                    \A f \in (F \cap Declared) \ last'.cached : last'.evals[f] = 1]_vars

\* A call whose first field missed the cache and whose second field was
\* loaded from it.
C17_Witness ==
    /\ last.err = "" /\ Len(last.fields) = 2
    /\ last.fields[1] \in Declared \ last.cached /\ last.evals[last.fields[1]] = 1
    /\ last.fields[2] \in last.cached

\* C18: Cache.load(year, cols) returns the table of the columns cols, in that
\* order, each the stored entry (year, col), or, when some col has no entry
\* for the year, raises CacheError with the first such col; the cache is as
\* it was.
C18_CacheLoadAllOrError ==
    [][(total = NoSum /\ total' # NoSum) =>
          LET cols == args'.cols
              absent == {i \in 1..Len(cols) : ~HasEntry(cache, args'.year, cols[i])}
          IN  /\ cache' = cache
              /\ IF absent = {}
                 THEN /\ total'.err = ""
                      /\ total'.ret.t = "DataFrame"
                      /\ total'.ret.a = [i \in 1..Len(cols) |->
                                            [name |-> cols[i],
                                             a |-> cache[<<args'.year, cols[i]>>]]]
                 ELSE /\ total'.err = "CacheError"
                      /\ total'.ret.a = <<cols[CHOOSE i \in absent : \A j \in absent : i <= j]>>]_vars

\* C19: a call of the transformer never changes a cache entry that was there
\* when it started: every key (year, field) of the cache keeps its column,
\* whatever the fields asked for and their order.
C19_EntriesKept ==
    [][\A k \in DOMAIN cache : k \in DOMAIN cache' /\ cache'[k] = cache[k]]_vars

\* A call that found a requested field in the cache and wrote another one.
C19_Witness ==
    /\ last # NoCall
    /\ last.err = "" /\ last.saved # <<>> /\ last.cached # {}
    /\ \A x \in last.cached : HasEntry(cache, last.year, x)

\* C20: when 'year' is among the fields asked for, the table a call returns
\* has a column 'year' holding the year in every row, and it has one row per
\* surveyed unit, whatever the other fields are and wherever they came from.
C20_YearColumn ==
    (last # NoCall /\ last.err = "" /\ InSeq("year", requested(last.fields))) =>
        /\ HasColumn(last.table, "year")
        /\ last.table.n = NRows
        /\ last.table.val["year"] = Fill(NRows, Num(last.year))

\* C21: every call for a year returns a table with the row count of the
\* year's raw source, each of its columns holding one value per row, whatever
\* the fields asked for and whatever the cache held.
C21_RowCountStable ==
    (last # NoCall /\ last.err = "") =>
        /\ last.table.n = NRows
        /\ \A x \in SeqSet(last.table.cols) : Len(last.table.val[x]) = NRows

\* C22: a descriptor whose specification gives the number v at the year
\* evaluates to a column of v with one value per surveyed unit of the year,
\* whatever columns the working table holds, also when it holds none.
C22_LiteralColumn ==
    total # NoSum =>
        /\ total.err = ""
        /\ total.ret.a = Fill(NRows, Num(IF args.year <= 1990 THEN args.value
                                         ELSE args.value + 1))

\* C23: the intervals of every declared specification are pairwise disjoint:
\* at the year a descriptor is resolved at, at most one item of its
\* specification contains the year, so the outcome returned is the outcome of
\* every item that contains the year.
C23_DeclaredIntervalsDisjoint ==
    total # NoSum =>
        LET D == SpecOf(args.field)
            covering == {i \in 1..Len(D) : C12_Covers(D[i].key, args.year)}
        IN  /\ \A i, j \in covering : i = j
            /\ \A i \in covering : total.err = "" /\ total.ret = D[i].value

\* C24: for every form of years specification, prepare_years and
\* filter_years return only available survey years, and filter_years only
\* years of valid when valid is given.
C24_OnlyAvailableYears ==
    total # NoSum =>
        /\ \A i \in 1..Len(total.ret.a) : InSeq(total.ret.a[i], PNAD_YEARS)
        /\ (args.fn = "filter_years" /\ args.valid.given) =>
               \A i \in 1..Len(total.ret.a) : total.ret.a[i] \in args.valid.ys

\* C25: load_household(year, fields) completes like load: it returns a table
\* of the fields asked for, and what it computed is in the cache afterwards.
C25_HouseholdLoads ==
    (last # NoCall /\ args = <<"household">>) =>
        /\ last.err = ""
        /\ SeqSet(last.table.cols) \subseteq SeqSet(Asked)
        /\ \A i \in 1..Len(last.saved) : HasEntry(cache, last.year, last.saved[i])

\* C26: a call writes to the cache only after every requested field has
\* been resolved: when a call raises, the cache is as it was when the call
\* started, also when fields were computed earlier in the same call.
C26_NoWriteBeforeAllResolved ==
    [][(last = NoCall /\ last' # NoCall /\ last'.err # "") => cache' = cache]_vars

\* A call that raised after the descriptor of a requested field had returned
\* its column: the column is not in the cache.
C26_Witness ==
    /\ last # NoCall /\ last.err # ""
    /\ \E f \in SeqSet(Asked) \cap Declared :
           /\ last.evals[f] = 1 /\ last.rets[f].t = "ndarray"
           /\ ~HasEntry(cache, last.year, f)

\* C27: every cache entry a call writes has the call's year and a requested
\* field other than 'year' as key, and the field's descriptor returned a
\* column in this call; raw variables, fields resolved only as dependencies,
\* fields resolved to None and 'year' are not written, and 'year' is not
\* read from the cache.
C27_Written ==
    {k \in DOMAIN cache' : k \notin DOMAIN cache \/ cache'[k] # cache[k]}

C27_OnlyRequestedWritten ==
    [][(last = NoCall /\ last' # NoCall) =>
          /\ \A k \in C27_Written :
                 /\ k[1] = last'.year
                 /\ InSeq(k[2], requested(last'.fields))
                 /\ k[2] \in Declared
                 /\ last'.evals[k[2]] = 1 /\ last'.rets[k[2]].t # "None"
          /\ "year" \notin last'.cached
          /\ \A k \in DOMAIN cache' : k[2] # "year"]_vars

\* A call that asked for 'year' and a function field: it wrote the function
\* field, and neither its dependencies, nor the raw variables they read,
\* nor 'year'.
C27_Witness ==
    /\ last # NoCall /\ last.err = ""
    /\ InSeq("year", Asked) /\ InSeq("income_work_main_money", Asked)
    /\ last.saved = <<"income_work_main_money">>
    /\ last.evals["income_work_main_money_fixed"] = 1
    /\ last.fell # <<>>
    /\ DOMAIN cache = {<<last.year, "income_work_main_money">>}

\* C28: within one session, a field whose descriptor evaluated to None is
\* seen as None on every later access through the proxy.
C28_AbsentStaysAbsent ==
    \A i, j \in 1..Len(args.seen) :
        (/\ i < j
         /\ args.seen[i].name = args.seen[j].name
         /\ args.seen[i].name \in Declared
         /\ args.seen[i].err = "" /\ args.seen[i].ret.t = "None")
        => (args.seen[j].err = "" /\ args.seen[j].ret.t = "None")

\* The specification of the income field f gives None at the year of the
\* call, or a raw variable that the raw table lacks.
C29_Absent(f) ==
    LET sel == select_by_year(last.year, Catalog[f].spec)
    IN  /\ sel.err = ""
        /\ sel.value.t = "none" \/ (sel.value.t = "col" /\ sel.value.c \notin rawcols)

C29_AllNull(a) == \A i \in 1..Len(a) : a[i] = NaN

\* C29: an income field never evaluates to absent: in a call for income
\* fields (and 'year'), a field that was not cached and whose specification
\* gives None, or a raw variable the raw table lacks, evaluates to an
\* all-null column; the call returns the column and writes it to the cache.
C29_IncomeFieldNeverAbsent ==
    (/\ last # NoCall
     /\ \A x \in SeqSet(Asked) :
            x = "year" \/ (x \in Declared /\ Catalog[x].kind = "IncomeField"))
    => \A f \in SeqSet(Asked) \ ({"year"} \cup last.cached) :
           C29_Absent(f) =>
               /\ last.err = ""
               /\ last.rets[f].t = "ndarray" /\ C29_AllNull(last.rets[f].a)
               /\ HasColumn(last.table, f) /\ C29_AllNull(last.table.val[f])
               /\ HasEntry(cache, last.year, f)
               /\ C29_AllNull(cache[<<last.year, f>>])

C31_ReferencesClosed ==
    \A i \in 1..Len(args.fell) : args.fell[i] \in GraphRaw

\* C32: the dependency graph among the declared fields of PersonTransformer
\* is acyclic, so demand-driven resolution terminates: no field is entered
\* again while it is being evaluated, the nesting stays below the depth
\* followed, and every session ends with each requested field stored in the
\* frame (as a column or as an absent result) or with a raised error.
C32_NoReentry ==
    \A i, j \in 1..Len(args.stack) :
        i # j => args.stack[i].name # args.stack[j].name

C32_Ended ==
    \/ args.err # ""
    \/ /\ args.stack = <<>> /\ args.k = Len(args.roots)
       /\ \A i \in 1..Len(args.roots) : args.roots[i] \in args.held

C32_ResolutionTerminates ==
    /\ [](C32_NoReentry /\ Len(args.stack) < MaxDepth)
    /\ <>C32_Ended

\* A session that ended without error after resolving income_work, whose
\* dependencies nest six deep and share income_work_extra_money.
C32_Witness ==
    /\ args.err = "" /\ args.stack = <<>> /\ args.k = Len(args.roots)
    /\ args.roots[1] = "income_work"
    /\ {"income_work", "income_work_other_money", "income_work_extra_money",
        "income_work_main_money_fixed"} \subseteq args.held

\* The region a state is listed under in the class body.
C33_RegionOf(s) ==
    CASE s \in {"RS", "SC", "PR"} -> "SUL"
      [] s \in {"SP", "RJ", "MG", "ES"} -> "SUDESTE"
      [] s \in {"MS", "MT", "GO", "DF"} -> "CENTRO_OESTE"
      [] s \in {"BA", "AL", "SE", "PE", "PB", "RN", "CE", "PI", "MA"} -> "NORDESTE"
      [] s \in {"TO", "PA", "AP", "AM", "RR", "AC", "RO"} -> "NORTE"

\* C33: every state member of the State flag enum carries the flag bit of
\* the region it is listed under and of no other region: s & R = R for its
\* own region, s & R' = 0 for every other region, and s & ANY_REGION is
\* exactly the flag of its own region.
C33_StateCarriesItsRegion ==
    /\ args.op = "s & r" =>
           total.ret = (IF args.r = C33_RegionOf(args.s) THEN State[args.r] ELSE State.UNKNOWN)
    /\ args.op = "s & ANY_REGION" =>
           total.ret = State[C33_RegionOf(args.s)]

====
